---- MODULE Spec2Model ----
(***************************************************************************)
(* Model of src/app.py: the EAN-13 checksum helpers, the code extractor,   *)
(* the evidence aggregator, the query loop of lookup and the row loop.     *)
(*                                                                         *)
(* A string is a sequence of characters; a character is a one-character    *)
(* string, except "u0661", which stands for U+0661 ARABIC-INDIC DIGIT ONE  *)
(* (a character that \d matches and [0-9] does not).  Python's None is the *)
(* value None below.                                                       *)
(*                                                                         *)
(* Weights and scores are IEEE 754 doubles.  A double v is the pair        *)
(* <<n, e>> with v = n/10 + (e/5) * 2^-56: n counts tenths, e is the       *)
(* rounding error in fifths of 2^-56.  Sums and products by a whole number *)
(* are exact on the pairs and are then rounded to the nearest double, ties *)
(* to even, which is what float addition and multiplication do.            *)
(***************************************************************************)
EXTENDS Integers, Sequences, FiniteSets, TLC

\* ------------------------------------------------------------ characters

None == <<"None">>

AsciiDigits == <<"0", "1", "2", "3", "4", "5", "6", "7", "8", "9">>

\* The value of each ASCII digit.
DigitValue == [ch \in {AsciiDigits[i] : i \in 1..10} |->
                  (CHOOSE i \in 1..10 : AsciiDigits[i] = ch) - 1]

\* ord(ch) of the characters ord is applied to (ASCII digits): 48 + value.
ord(ch) == 48 + DigitValue[ch]

\* int(ch) of one ASCII digit.
int(ch) == DigitValue[ch]

\* The string of a sequence of digit values.
Dig(ds) == [i \in DOMAIN ds |-> AsciiDigits[ds[i] + 1]]

\* [0-9]
IsAsciiDigit(ch) == ch \in DOMAIN DigitValue

\* \d of a str pattern: every Unicode decimal digit.
IsReDigit(ch) == IsAsciiDigit(ch) \/ ch = "u0661"

UpperLetters == <<"A", "B", "C", "D", "E", "F", "G", "H", "I", "J", "K", "L", "M",
                  "N", "O", "P", "Q", "R", "S", "T", "U", "V", "W", "X", "Y", "Z">>
LowerLetters == <<"a", "b", "c", "d", "e", "f", "g", "h", "i", "j", "k", "l", "m",
                  "n", "o", "p", "q", "r", "s", "t", "u", "v", "w", "x", "y", "z">>

\* The lower-case letter of each upper-case letter, and the other way round.
ToLower == [ch \in {UpperLetters[i] : i \in 1..26} |->
               LowerLetters[CHOOSE i \in 1..26 : UpperLetters[i] = ch]]
ToUpper == [ch \in {LowerLetters[i] : i \in 1..26} |->
               UpperLetters[CHOOSE i \in 1..26 : LowerLetters[i] = ch]]

IsUpper(ch) == ch \in DOMAIN ToLower

IsLower(ch) == ch \in DOMAIN ToUpper

\* The characters \w matches: letters, digits and the underscore.
WordChars == DOMAIN ToLower \cup DOMAIN ToUpper \cup DOMAIN DigitValue \cup {"u0661", "_"}

\* \w
IsWord(ch) == ch \in WordChars

\* The characters [ \t\-] matches.
SepChars == {" ", "\t", "-"}

\* [ \t\-]
IsSep(ch) == ch \in SepChars

\* The characters \s matches.
SpaceChars == {" ", "\t", "\n", "\r"}

\* \s
IsSpace(ch) == ch \in SpaceChars

\* str.lower(), character by character.
LowerCh(ch) == IF IsUpper(ch) THEN ToLower[ch] ELSE ch

lower(s) == [i \in DOMAIN s |-> LowerCh(s[i])]

\* ------------------------------------------------------ checksum helpers

\* re.sub(r"[^0-9]", "", s or "")
clean_digits(s) == IF s = None THEN <<>> ELSE SelectSeq(s, IsAsciiDigit)

RECURSIVE WeightedSum(_, _)
\* sum((ord(ch)-48) * (3 if i%2 else 1) for i, ch in enumerate(d)), over the
\* first n characters; the 0-based index i is the 1-based index minus one.
WeightedSum(d, n) ==
    IF n = 0 THEN 0
    ELSE WeightedSum(d, n - 1)
         + (ord(d[n]) - 48) * (IF (n - 1) % 2 = 1 THEN 3 ELSE 1)

ean13_check_digit(d12) == (10 - (WeightedSum(d12, Len(d12)) % 10)) % 10

is_valid_ean13(code) ==
    LET d == clean_digits(code)
    IN  /\ Len(d) = 13
        /\ ean13_check_digit(SubSeq(d, 1, 12)) = int(d[13])

\* upc12_to_gtin13 with a fault: the candidate is returned unvalidated.
upc12_to_gtin13_unchecked(upc) ==
    LET d == clean_digits(upc)
    IN  IF Len(d) # 12 THEN None ELSE <<"0">> \o d

upc12_to_gtin13(upc) ==
    LET d == clean_digits(upc)
        cand == <<"0">> \o d
    IN  IF Len(d) # 12 THEN None
        ELSE IF is_valid_ean13(cand) THEN cand ELSE None

\* ------------------------------------------------------- code extractor

\* \b before position p (1-based; p = Len(s)+1 is the end of the string).
WordBoundary(s, p) ==
    LET before == p > 1 /\ IsWord(s[p - 1])
        after  == p <= Len(s) /\ IsWord(s[p])
    IN  before # after

RECURSIVE GroupEnd(_, _, _)
\* (?:\d[ \t\-]?){12,14}\b tried at position p with k repetitions done: the
\* position after the match the backtracking engine finds first, 0 if none.
\* Greedy: one more repetition before stopping, the separator before none.
GroupEnd(s, p, k) ==
    LET more ==
            IF k < 14 /\ p <= Len(s) /\ IsReDigit(s[p])
            THEN LET withSep == IF p + 1 <= Len(s) /\ IsSep(s[p + 1])
                                THEN GroupEnd(s, p + 2, k + 1) ELSE 0
                 IN  IF withSep # 0 THEN withSep ELSE GroupEnd(s, p + 1, k + 1)
            ELSE 0
    IN  IF more # 0 THEN more
        ELSE IF k >= 12 /\ WordBoundary(s, p) THEN p
        ELSE 0

\* EAN_RE.match at position p: the end of the match, 0 if none.
EAN_RE(s, p) == IF WordBoundary(s, p) THEN GroupEnd(s, p, 0) ELSE 0

RECURSIVE finditer(_, _)
\* EAN_RE.finditer(s) from position p: the matched tokens, left to right,
\* not overlapping.
finditer(s, p) ==
    IF p > Len(s) THEN <<>>
    ELSE LET e == EAN_RE(s, p)
         IN  IF e # 0 THEN <<SubSeq(s, p, e - 1)>> \o finditer(s, e)
             ELSE finditer(s, p + 1)

\* TokenCodes with a fault: 13 digits are taken without the checksum test.
TokenCodesNoChecksum(tok) ==
    LET d == clean_digits(tok)
    IN  IF Len(d) = 13 THEN <<d>>
        ELSE IF Len(d) = 12
             THEN LET gt == upc12_to_gtin13(d)
                  IN  IF gt # None THEN <<gt>> ELSE <<>>
             ELSE <<>>

\* One pass of the loop body of find_eans_in_text: what a token appends to out.
TokenCodes(tok) ==
    LET d == clean_digits(tok)
    IN  IF Len(d) = 13 /\ is_valid_ean13(d) THEN <<d>>
        ELSE IF Len(d) = 12
             THEN LET gt == upc12_to_gtin13(d)
                  IN  IF gt # None THEN <<gt>> ELSE <<>>
             ELSE <<>>

RECURSIVE ExtractAll(_, _)
\* out after the first n tokens.
ExtractAll(toks, n) ==
    IF n = 0 THEN <<>> ELSE ExtractAll(toks, n - 1) \o TokenCodes(toks[n])

RECURSIVE DictFromKeysLast(_, _)
\* DictFromKeys with a fault: each key stays at the place of its last occurrence.
DictFromKeysLast(out, n) ==
    IF n = 0 THEN <<>>
    ELSE LET rest == DictFromKeysLast(out, n - 1)
         IN  Append(SelectSeq(rest, LAMBDA c : c # out[n]), out[n])

RECURSIVE DictFromKeys(_, _)
\* list(dict.fromkeys(out)), over the first n elements: each key once, at the
\* place of its first occurrence.
DictFromKeys(out, n) ==
    IF n = 0 THEN <<>>
    ELSE LET rest == DictFromKeys(out, n - 1)
         IN  IF \E i \in 1..Len(rest) : rest[i] = out[n] THEN rest
             ELSE Append(rest, out[n])

find_eans_in_text(text) ==
    LET toks == finditer(IF text = None THEN <<>> ELSE text, 1)
        out  == ExtractAll(toks, Len(toks))
    IN  DictFromKeys(out, Len(out))

\* -------------------------------------------------------------- floats

\* 2^k modulo 5.
Pow2Mod5(k) == <<1, 2, 4, 3>>[(k % 4) + 1]

\* The binade of a positive v: j with 2^(j-4) <= v < 2^(j-3), where the doubles
\* are 2^j units of 2^-56 apart.
Binade(v) ==
    LET j == CHOOSE i \in 0..20 : 10 * 2^i <= 16 * v[1] /\ 16 * v[1] < 10 * 2^(i + 1)
    IN  IF 10 * 2^j = 16 * v[1] /\ v[2] < 0 THEN j - 1 ELSE j

\* The double nearest to the exact value v, ties to even.  With g = 2^j and
\* m = v / 2^-56, t is 5m modulo 10g (5m = n * 2^55 + e), r is five times the
\* distance of m above the double below it, odd tells whether that double is
\* an odd multiple of g.
Round(v) ==
    IF v[1] = 0 THEN v
    ELSE LET j == Binade(v)
             g == 2^j
             t == (2 * g * ((v[1] * Pow2Mod5(54 - j)) % 5) + v[2]) % (10 * g)
             r == t % (5 * g)
             odd == t \div (5 * g)
             d == IF 2 * r < 5 * g THEN 0 - r
                  ELSE IF 2 * r > 5 * g THEN 5 * g - r
                  ELSE IF odd = 0 THEN 0 - r ELSE 5 * g - r
         IN  <<v[1], v[2] + d>>

\* The float literal of n tenths: 1.0 is F(10), 0.1 is F(1), 0.5 is F(5).
F(n) == Round(<<n, 0>>)

\* a + b
fadd(a, b) == Round(<<a[1] + b[1], a[2] + b[2]>>)

\* k * a, for a whole number k
fmulint(k, a) == Round(<<k * a[1], k * a[2]>>)

\* a > b: the errors are far smaller than a tenth.
fgt(a, b) == a[1] > b[1] \/ (a[1] = b[1] /\ a[2] > b[2])

\* --------------------------------------------------- evidence aggregator

\* s[p..] starts with sub.
StartsAt(s, p, sub) ==
    /\ p >= 1
    /\ p + Len(sub) - 1 <= Len(s)
    /\ SubSeq(s, p, p + Len(sub) - 1) = sub

RECURSIVE SkipSpaces(_, _)
\* \s* from position p: the position after the longest run of white space.
SkipSpaces(s, p) ==
    IF p <= Len(s) /\ IsSpace(s[p]) THEN SkipSpaces(s, p + 1) ELSE p

\* re.search(r"(ean|gtin|barcode|cod\s*ean|ean-13)", text.lower())
HasKeyword(text) ==
    \E t \in {lower(text)} :
        \E p \in 1..Len(t) :
            \/ StartsAt(t, p, <<"e", "a", "n">>)
            \/ StartsAt(t, p, <<"g", "t", "i", "n">>)
            \/ StartsAt(t, p, <<"b", "a", "r", "c", "o", "d", "e">>)
            \/ /\ StartsAt(t, p, <<"c", "o", "d">>)
               /\ StartsAt(t, SkipSpaces(t, p + 3), <<"e", "a", "n">>)
            \/ StartsAt(t, p, <<"e", "a", "n", "-", "1", "3">>)

\* base * w of one evidence item: base is 1.0, plus 1.0 with a keyword; both
\* are whole numbers.
Contribution(text, w) ==
    LET base == IF HasKeyword(text) THEN fadd(F(10), F(10)) ELSE F(10)
    IN  fmulint(base[1] \div 10, w)

\* scores[c] = scores.get(c, 0.0) + v.  The dict is a sequence of <<key, value>>
\* pairs in insertion order.
AddScore(scores, c, v) ==
    IF \E i \in 1..Len(scores) : scores[i][1] = c
    THEN LET i == CHOOSE j \in 1..Len(scores) : scores[j][1] = c
         IN  [scores EXCEPT ![i] = <<c, fadd(scores[i][2], v)>>]
    ELSE Append(scores, <<c, fadd(<<0, 0>>, v)>>)

RECURSIVE ScoreCodes(_, _, _, _)
\* The inner loop of choose_best_ean over the first n codes of one item.
ScoreCodes(scores, codes, n, v) ==
    IF n = 0 THEN scores
    ELSE AddScore(ScoreCodes(scores, codes, n - 1, v), codes[n], v)

RECURSIVE ScoreItems(_, _)
\* The outer loop of choose_best_ean over the first n evidence items.
ScoreItems(tw, n) ==
    IF n = 0 THEN <<>>
    ELSE LET codes == find_eans_in_text(tw[n][1])
         IN  IF codes = <<>> THEN ScoreItems(tw, n - 1)
             ELSE ScoreCodes(ScoreItems(tw, n - 1), codes, Len(codes),
                             Contribution(tw[n][1], tw[n][2]))

RECURSIVE MaxIndexLast(_, _)
\* MaxIndex with a fault: of equal values the last one wins.
MaxIndexLast(scores, n) ==
    IF n = 1 THEN 1
    ELSE LET m == MaxIndexLast(scores, n - 1)
         IN  IF ~fgt(scores[m][2], scores[n][2]) THEN n ELSE m

RECURSIVE MaxIndex(_, _)
\* max(scores.items(), key=lambda kv: kv[1]) over the first n pairs: the index
\* of the first pair with the greatest value.
MaxIndex(scores, n) ==
    IF n = 1 THEN 1
    ELSE LET m == MaxIndex(scores, n - 1)
         IN  IF fgt(scores[n][2], scores[m][2]) THEN n ELSE m

choose_best_ean(texts_with_weights) ==
    LET scores == ScoreItems(texts_with_weights, Len(texts_with_weights))
    IN  IF scores # <<>> THEN scores[MaxIndex(scores, Len(scores))][1] ELSE None

\* ------------------------------------------------------ external calls

\* A pandas cell that holds no value.
NaN == <<"NaN">>

\* str(v) of a cell value: a string is itself, an empty cell is "nan".
str(v) == IF v = NaN THEN <<"n", "a", "n">> ELSE v

RECURSIVE lstrip(_)
lstrip(s) == IF s # <<>> /\ IsSpace(Head(s)) THEN lstrip(Tail(s)) ELSE s

RECURSIVE rstrip(_)
rstrip(s) ==
    IF s # <<>> /\ IsSpace(s[Len(s)]) THEN rstrip(SubSeq(s, 1, Len(s) - 1)) ELSE s

\* str.strip()
strip(s) == rstrip(lstrip(s))

\* str.upper(), character by character.
UpperCh(ch) == IF IsLower(ch) THEN ToUpper[ch] ELSE ch

upper(s) == [i \in DOMAIN s |-> UpperCh(s[i])]

NOT_FOUND == <<"N", "O", "T", "_", "F", "O", "U", "N", "D">>

RECURSIVE FindGt(_, _)
\* The position of the first ">" at or after position p, 0 if there is none.
FindGt(s, p) ==
    IF p > Len(s) THEN 0 ELSE IF s[p] = ">" THEN p ELSE FindGt(s, p + 1)

RECURSIVE StripTags(_, _)
\* re.sub(r"<[^>]+>", " ", s, flags=re.DOTALL) from position p: a tag is a "<",
\* at least one character other than ">", and the first ">" after them.
StripTags(s, p) ==
    IF p > Len(s) THEN <<>>
    ELSE IF s[p] = "<" /\ p + 1 <= Len(s) /\ s[p + 1] # ">" /\ FindGt(s, p + 2) # 0
         THEN <<" ">> \o StripTags(s, FindGt(s, p + 2) + 1)
         ELSE <<s[p]>> \o StripTags(s, p + 1)

RECURSIVE CollapseSpaces(_, _)
\* re.sub(r"\s+", " ", s) from position p.
CollapseSpaces(s, p) ==
    IF p > Len(s) THEN <<>>
    ELSE IF IsSpace(s[p]) THEN <<" ">> \o CollapseSpaces(s, SkipSpaces(s, p))
    ELSE <<s[p]>> \o CollapseSpaces(s, p + 1)

\* What fetch_url_text returns for one outcome of requests.get: the exception
\* handler and the status test give "", a 200 response its text without tags.
fetch_url_text(resp) ==
    IF resp.kind = "raise" THEN <<>>
    ELSE IF resp.status # 200 THEN <<>>
    ELSE LET txt == StripTags(resp.text, 1) IN CollapseSpaces(txt, 1)

\* ------------------------------------------------------------- inputs

\* The most rows of the uploaded sheet.
MaxRows == 2

\* The most results one search returns (at most max_urls in the source): in the
\* runs of the row loop, and in the runs of one lookup.
MaxRowItems == 1
MaxItems == 2

\* lookup's default max_urls.
max_urls == 5

ValidA == Dig(<<4, 0, 0, 6, 3, 8, 1, 3, 3, 3, 9, 3, 1>>)
ValidB == Dig(<<5, 9, 0, 3, 3, 9, 6, 3, 7, 3, 4, 7, 3>>)
Invalid13 == Dig(<<9, 9, 9, 9, 9, 9, 9, 9, 9, 9, 9, 9, 9>>)
Upc12 == Dig(<<0, 3, 6, 0, 0, 0, 2, 9, 1, 4, 5, 2>>)

\* What a target cell may hold before the run: nothing, other text, a valid
\* code, the sentinel, a digit run that fails the checksum, and the sentinel in
\* lower case after a blank.
Cells == << NaN,
            <<"a", "b", "c">>,
            ValidA,
            NOT_FOUND,
            Invalid13,
            <<" ", "n", "o", "t", "_", "f", "o", "u", "n", "d">> >>

\* The uploaded sheets: n cells of Cells in a row, from cell k on (cyclically).
Sheets ==
    { [i \in 1..n |-> Cells[((k + i - 2) % Len(Cells)) + 1]] :
        n \in 1..MaxRows, k \in 1..Len(Cells) }

\* The snippets of the search results: a labelled valid code, and a digit run
\* that fails the checksum.
Snippets == { <<"E", "A", "N", ":", " ">> \o ValidA,
              Invalid13 \o <<" ", "x">> }

\* A search result with its "link" key (TRUE) or without it.
Items == [snippet : Snippets, link : BOOLEAN]

\* The responses of requests.get to a page fetch: an exception, a status other
\* than 200, and two pages.
FetchResponses ==
    { [kind |-> "raise", status |-> 0, text |-> <<>>],
      [kind |-> "response", status |-> 404, text |-> <<"<", "h", "1", ">">> \o ValidB],
      [kind |-> "response", status |-> 200, text |-> <<"<", "b", ">">> \o ValidB \o <<"<", "/", "b", ">">>],
      [kind |-> "response", status |-> 200, text |-> <<>>] }

RECURSIVE SeqsUpTo(_, _)
\* The sequences over S of length at most n.
SeqsUpTo(S, n) ==
    IF n = 0 THEN {<<>>}
    ELSE LET shorter == SeqsUpTo(S, n - 1)
         IN  shorter \cup {Append(q, x) : q \in {r \in shorter : Len(r) = n - 1}, x \in S}

\* The responses of requests.get to a search: an exception (a timeout, a
\* transport error), a status other than 200, and a 200 with its results.
SearchResponses(cap) ==
    { [kind |-> "raise", status |-> 0, items |-> <<>>],
      [kind |-> "response", status |-> 403, items |-> <<>>] }
    \cup { [kind |-> "response", status |-> 200, items |-> its] :
             its \in SeqsUpTo(Items, cap) }

\* -------------------------------------------------------------- state

VARIABLES
    df,             \* the target column of the sheet, one cell per row
    df0,            \* history: the target column as uploaded
    mode,           \* "Doar SKU" or "Doar Nume"
    configured,     \* GOOGLE_API_KEY and GOOGLE_CSE_CX are both set
    max_rows,       \* the rows to process
    pc,             \* where the script is
    idx,            \* the row of the loop, from 1
    done,           \* the progress counter
    request_count,  \* st.session_state["request_count"]
    queries,        \* lookup: the queries of this row
    qi,             \* lookup: the query of the loop, from 1
    items,          \* lookup: the results of the last search
    rank,           \* lookup: the result of the inner loop, from 0
    texts,          \* lookup: the evidence, <<text, weight>> pairs
    found,          \* what lookup returned
    ext,            \* the external call of the last step and what it gave
    looked,         \* history: the rows lookup was called for
    issued,         \* history: the queries searched in this lookup, in order
    aggs,           \* history: what choose_best_ean returned in this lookup, in order
    arg,            \* the input of the function under test
    ret             \* its result

vars == <<df, df0, mode, configured, max_rows, pc, idx, done, request_count,
          queries, qi, items, rank, texts, found, ext, looked, issued, aggs,
          arg, ret>>

rowVars == <<df, df0, mode, configured, max_rows, idx, done, request_count,
             queries, qi, items, rank, found, ext, looked, issued, aggs>>

NoCall == [call |-> "none", failed |-> FALSE, gave |-> <<>>]

Init ==
    /\ df0 \in Sheets
    /\ df = df0
    /\ mode \in {"Doar SKU", "Doar Nume"}
    /\ configured \in BOOLEAN
    /\ max_rows \in 1..Len(df0)
    /\ pc = "row"
    /\ idx = 1
    /\ done = 0
    /\ request_count = 0
    /\ queries = <<>>
    /\ qi = 0
    /\ items = <<>>
    /\ rank = 0
    /\ texts = <<>>
    /\ found = None
    /\ ext = NoCall
    /\ looked = {}
    /\ issued = <<>>
    /\ aggs = <<>>
    /\ arg = None
    /\ ret = None

\* ------------------------------------------------------------- row loop

\* current = str(row.get(col_target, "")).strip()
Current(cell) == strip(str(cell))

\* SkipRow with a fault: the sentinel is compared without upper().
SkipRowExactCase(current) ==
    /\ current # <<>>
    /\ (is_valid_ean13(current) \/ current = NOT_FOUND)

\* current and (is_valid_ean13(current) or current.upper() == "NOT_FOUND")
SkipRow(current) ==
    /\ current # <<>>
    /\ (is_valid_ean13(current) \/ upper(current) = NOT_FOUND)

\* The queries lookup builds: the quoted SKU or name of the row, then a keyword.
Queries(m, row) ==
    IF m = "Doar SKU"
    THEN << [col |-> "sku", row |-> row, kw |-> "ean"],
            [col |-> "sku", row |-> row, kw |-> "gtin"] >>
    ELSE << [col |-> "name", row |-> row, kw |-> "ean"],
            [col |-> "name", row |-> row, kw |-> "gtin"] >>

\* RowSkip with a fault: the row is passed by without being counted.
RowSkipNoCount ==
    /\ pc = "row"
    /\ idx <= max_rows
    /\ SkipRow(Current(df[idx]))
    /\ idx' = idx + 1
    /\ ext' = NoCall
    /\ UNCHANGED <<df, df0, mode, configured, max_rows, pc, done, request_count,
                   queries, qi, items, rank, texts, found, looked, issued, aggs,
                   arg, ret>>

\* The skip branch of the loop body: count the row and go on.
RowSkip ==
    /\ pc = "row"
    /\ idx <= max_rows
    /\ SkipRow(Current(df[idx]))
    /\ done' = done + 1
    /\ idx' = idx + 1
    /\ ext' = NoCall
    /\ UNCHANGED <<df, df0, mode, configured, max_rows, pc, request_count, queries,
                   qi, items, rank, texts, found, looked, issued, aggs, arg, ret>>

\* The call of lookup, up to its first search.
RowLookup ==
    /\ pc = "row"
    /\ idx <= max_rows
    /\ ~SkipRow(Current(df[idx]))
    /\ looked' = looked \cup {idx}
    /\ queries' = Queries(mode, idx)
    /\ texts' = <<>>
    /\ qi' = 1
    /\ items' = <<>>
    /\ rank' = 0
    /\ found' = None
    /\ issued' = <<>>
    /\ aggs' = <<>>
    /\ ext' = NoCall
    /\ pc' = "search"
    /\ UNCHANGED <<df, df0, mode, configured, max_rows, idx, done, request_count,
                   arg, ret>>

\* google_search(q, num=max_urls) without keys: no request, no results.
SearchUnconfigured ==
    /\ pc = "search"
    /\ ~configured
    /\ issued' = Append(issued, queries[qi])
    /\ items' = <<>>
    /\ rank' = 0
    /\ ext' = [call |-> "search", failed |-> TRUE, gave |-> <<>>]
    /\ pc' = "aggregate"
    /\ UNCHANGED <<df, df0, mode, configured, max_rows, idx, done, request_count,
                   queries, qi, texts, found, looked, aggs, arg, ret>>

\* google_search(q, num=max_urls) with keys: requests.get is not guarded, so its
\* exception leaves google_search, lookup and the loop.
SearchRequest(cap) ==
    /\ pc = "search"
    /\ configured
    /\ \E resp \in SearchResponses(cap) :
         /\ issued' = Append(issued, queries[qi])
         /\ IF resp.kind = "raise"
            THEN /\ pc' = "raised"
                 /\ ext' = [call |-> "search", failed |-> TRUE, gave |-> <<>>]
                 /\ UNCHANGED <<request_count, items, rank>>
            ELSE /\ request_count' = request_count + 1
                 /\ items' = (IF resp.status # 200 THEN <<>> ELSE resp.items)
                 /\ rank' = 0
                 /\ ext' = [call |-> "search", failed |-> resp.status # 200,
                            gave |-> items']
                 /\ pc' = (IF items' = <<>> THEN "aggregate" ELSE "snippet")
    /\ UNCHANGED <<df, df0, mode, configured, max_rows, idx, done, queries, qi,
                   texts, found, looked, aggs, arg, ret>>

\* Weight with a fault: the rank is counted from 1.
WeightOneBased(r) == fadd(F(10), fmulint(max_urls - (r + 1), F(1)))

\* w = 1.0 + (max_urls - rank) * 0.1
Weight(r) == fadd(F(10), fmulint(max_urls - r, F(1)))

\* The position after result r of the inner loop.
AfterItem(r) == IF r + 1 < Len(items) THEN "snippet" ELSE "aggregate"

\* texts.append((it.get("snippet", ""), w)), and the test of the link.
AddSnippet ==
    /\ pc = "snippet"
    /\ texts' = Append(texts, <<items[rank + 1].snippet, Weight(rank)>>)
    /\ IF items[rank + 1].link
       THEN pc' = "fetch" /\ rank' = rank
       ELSE pc' = AfterItem(rank) /\ rank' = rank + 1
    /\ ext' = NoCall
    /\ UNCHANGED <<df, df0, mode, configured, max_rows, idx, done, request_count,
                   queries, qi, items, found, looked, issued, aggs, arg, ret>>

\* page = fetch_url_text(link); if page: texts.append((page, w + 0.5))
FetchPage ==
    /\ pc = "fetch"
    /\ \E resp \in FetchResponses :
         \E page \in {fetch_url_text(resp)} :
             /\ texts' = (IF page # <<>>
                          THEN Append(texts, <<page, fadd(Weight(rank), F(5))>>)
                          ELSE texts)
             /\ ext' = [call |-> "fetch",
                        failed |-> (resp.kind = "raise" \/ resp.status # 200),
                        gave |-> page]
    /\ pc' = AfterItem(rank)
    /\ rank' = rank + 1
    /\ UNCHANGED <<df, df0, mode, configured, max_rows, idx, done, request_count,
                   queries, qi, items, found, looked, issued, aggs, arg, ret>>

\* Aggregate with a fault: the loop over the queries goes on after a code.
AggregateNoExit ==
    /\ pc = "aggregate"
    /\ \E best \in {choose_best_ean(texts)} :
           /\ aggs' = Append(aggs, best)
           /\ found' = best
           /\ qi' = qi + 1
           /\ pc' = (IF qi + 1 <= Len(queries) THEN "search" ELSE "final")
    /\ items' = <<>>
    /\ rank' = 0
    /\ ext' = NoCall
    /\ UNCHANGED <<df, df0, mode, configured, max_rows, idx, done, request_count,
                   queries, texts, looked, issued, arg, ret>>

\* best = choose_best_ean(texts); if best: return best -- else the next query,
\* or the end of the loop over the queries.  The results of the search are not
\* read again.
Aggregate ==
    /\ pc = "aggregate"
    /\ \E best \in {choose_best_ean(texts)} :
           /\ aggs' = Append(aggs, best)
           /\ IF best # None /\ best # <<>>
              THEN found' = best /\ pc' = "write" /\ qi' = qi
              ELSE /\ found' = found
                   /\ qi' = qi + 1
                   /\ pc' = (IF qi + 1 <= Len(queries) THEN "search" ELSE "final")
    /\ items' = <<>>
    /\ rank' = 0
    /\ ext' = NoCall
    /\ UNCHANGED <<df, df0, mode, configured, max_rows, idx, done, request_count,
                   queries, texts, looked, issued, arg, ret>>

\* return choose_best_ean(texts), after the last query.
FinalAggregate ==
    /\ pc = "final"
    /\ \E best \in {choose_best_ean(texts)} :
           aggs' = Append(aggs, best) /\ found' = best
    /\ pc' = "write"
    /\ ext' = NoCall
    /\ UNCHANGED <<df, df0, mode, configured, max_rows, idx, done, request_count,
                   queries, qi, items, rank, texts, looked, issued, arg, ret>>

\* The write of the target cell, and the end of the loop body.  What lookup
\* held is gone with its frame.
WriteRow ==
    /\ pc = "write"
    /\ df' = [df EXCEPT ![idx] =
                IF found # None /\ found # <<>> /\ is_valid_ean13(found)
                THEN found ELSE NOT_FOUND]
    /\ done' = done + 1
    /\ idx' = idx + 1
    /\ pc' = "row"
    /\ queries' = <<>>
    /\ qi' = 0
    /\ texts' = <<>>
    /\ found' = None
    /\ issued' = <<>>
    /\ aggs' = <<>>
    /\ ext' = NoCall
    /\ UNCHANGED <<df0, mode, configured, max_rows, request_count, items, rank,
                   looked, arg, ret>>

\* The end of the loop over the rows.
Finish ==
    /\ pc = "row"
    /\ idx > max_rows
    /\ pc' = "finished"
    /\ ext' = NoCall
    /\ UNCHANGED <<df, df0, mode, configured, max_rows, idx, done, request_count,
                   queries, qi, items, rank, texts, found, looked, issued, aggs,
                   arg, ret>>

Next ==
    \/ RowSkip
    \/ RowLookup
    \/ SearchUnconfigured
    \/ SearchRequest(MaxRowItems)
    \/ AddSnippet
    \/ FetchPage
    \/ Aggregate
    \/ FinalAggregate
    \/ WriteRow
    \/ Finish

Spec == Init /\ [][Next]_vars

\* ------------------------------------------------------------ one lookup

\* A sheet of two rows that both need a lookup.
InitLookup ==
    /\ Init
    /\ df0 = <<NaN, <<"a", "b", "c">> >>
    /\ max_rows = 2

NextLookup ==
    \/ RowLookup
    \/ SearchUnconfigured
    \/ SearchRequest(MaxItems)
    \/ AddSnippet
    \/ FetchPage
    \/ Aggregate
    \/ FinalAggregate
    \/ WriteRow

SpecLookup == InitLookup /\ [][NextLookup]_vars

\* ------------------------------------------- the functions on their own

\* The most pieces of a text given to find_eans_in_text.
MaxPieces == 3

\* The most evidence items given to choose_best_ean.
MaxEvid == 4

Hyphenated(d) == SubSeq(d, 1, 1) \o <<"-">> \o SubSeq(d, 2, 7) \o <<"-">> \o SubSeq(d, 8, Len(d))

\* The 12-digit strings that end in two free digits after either of two
\* 10-digit starts.
TwelveDigits ==
    { Dig(pre \o <<a, b>>) :
        pre \in { <<0, 3, 6, 0, 0, 0, 2, 9, 1, 4>>, <<7, 2, 5, 2, 7, 2, 7, 3, 0, 7>> },
        a \in 0..9, b \in 0..9 }

\* What upc12_to_gtin13 is given: 12 digits, bare, with hyphens, and between
\* letters; 11 and 13 digits; nothing.
UpcInputs ==
    TwelveDigits
    \cup { Hyphenated(d) : d \in TwelveDigits }
    \cup { <<"U", "P", "C", " ">> \o d \o <<".">> : d \in TwelveDigits }
    \cup { SubSeq(d, 1, 11) : d \in TwelveDigits }
    \cup { d \o <<"5">> : d \in TwelveDigits }
    \cup { <<>>, None }

Bad12 == Dig(<<0, 3, 6, 0, 0, 0, 2, 9, 1, 4, 5, 3>>)

\* The pieces the texts given to find_eans_in_text are made of.
Pieces ==
    { ValidA \o <<" ">>, Hyphenated(ValidB), Upc12 \o <<",">>, Bad12, Invalid13,
      <<"1">>, <<"u0661">>, <<" ">>, <<"-">>, <<"x">> }

RECURSIVE Concat(_, _)
\* The first n sequences of ss, one after another.
Concat(ss, n) == IF n = 0 THEN <<>> ELSE Concat(ss, n - 1) \o ss[n]

ExtractInputs ==
    { Concat(ps, Len(ps)) : ps \in SeqsUpTo(Pieces, MaxPieces) } \cup { None }

\* The rest of the state, at rest.
Idle ==
    /\ df0 = <<NaN>>
    /\ df = df0
    /\ mode = "Doar SKU"
    /\ configured = FALSE
    /\ max_rows = 1
    /\ idx = 1
    /\ done = 0
    /\ request_count = 0
    /\ queries = <<>>
    /\ qi = 0
    /\ items = <<>>
    /\ rank = 0
    /\ found = None
    /\ ext = NoCall
    /\ looked = {}
    /\ issued = <<>>
    /\ aggs = <<>>

InitFn ==
    /\ Idle
    /\ texts = <<>>
    /\ pc = "call"
    /\ arg \in { [fn |-> "upc12_to_gtin13", x |-> u] : u \in UpcInputs }
               \cup { [fn |-> "find_eans_in_text", x |-> t] : t \in ExtractInputs }
    /\ ret = None

CallUpc ==
    /\ pc = "call"
    /\ arg.fn = "upc12_to_gtin13"
    /\ ret' = upc12_to_gtin13(arg.x)
    /\ pc' = "returned"
    /\ UNCHANGED <<rowVars, texts, arg>>

CallExtract ==
    /\ pc = "call"
    /\ arg.fn = "find_eans_in_text"
    /\ ret' = find_eans_in_text(arg.x)
    /\ pc' = "returned"
    /\ UNCHANGED <<rowVars, texts, arg>>

NextFn == CallUpc \/ CallExtract

SpecFn == InitFn /\ [][NextFn]_vars

\* The evidence given to choose_best_ean: a bare code, a labelled code, two
\* codes after a label, and a labelled digit run that fails the checksum, with
\* weights lookup gives to snippets and pages.
EvidenceItems ==
    { <<ValidB, Weight(1)>>,
      <<ValidB, Weight(3)>>,
      <<<<"E", "A", "N", " ">> \o ValidA, Weight(2)>>,
      <<<<"E", "A", "N", " ">> \o ValidA, fadd(Weight(0), F(5))>>,
      <<<<"g", "t", "i", "n", ":">> \o ValidB \o <<",">> \o ValidA, Weight(3)>>,
      <<<<"b", "a", "r", "c", "o", "d", "e", " ">> \o Invalid13, Weight(0)>> }

InitAgg ==
    /\ Idle
    /\ texts = <<>>
    /\ pc = "call"
    /\ arg = None
    /\ ret = None

\* choose_best_ean(texts); arg keeps what it returned the time before.
CallChoose ==
    /\ pc = "call"
    /\ ret' = choose_best_ean(texts)
    /\ arg' = ret
    /\ pc' = "returned"
    /\ UNCHANGED <<rowVars, texts>>

\* One more evidence item at the end of the list.
Extend ==
    /\ pc = "returned"
    /\ Len(texts) < MaxEvid
    /\ \E item \in EvidenceItems : texts' = Append(texts, item)
    /\ pc' = "call"
    /\ UNCHANGED <<rowVars, arg, ret>>

NextAgg == CallChoose \/ Extend

SpecAgg == InitAgg /\ [][NextAgg]_vars

\* ---------------------------------------------------------- properties

RECURSIVE Mod10Sum(_, _)
\* The EAN-13 sum of the first n digits of c: the digits at the even places
\* (counted from 1) three times, the others once.
Mod10Sum(c, n) ==
    IF n = 0 THEN 0
    ELSE Mod10Sum(c, n - 1)
         + (CHOOSE v \in 0..9 : AsciiDigits[v + 1] = c[n]) * (IF n % 2 = 0 THEN 3 ELSE 1)

\* c is a string of 13 ASCII digits that passes the EAN-13 checksum.
IsGtin13(c) ==
    /\ c # None
    /\ Len(c) = 13
    /\ \A i \in 1..13 : IsAsciiDigit(c[i])
    /\ Mod10Sum(c, 13) % 10 = 0

\* The ASCII digits of s, in order.
DigitsOf(s) == SelectSeq(s, IsAsciiDigit)

\* The elements of a sequence.
Range(q) == { q[i] : i \in 1..Len(q) }

\* C1: every code find_eans_in_text emits for an evidence text, every value
\* choose_best_ean or lookup returns, and every value the loop writes into the
\* target column is None, the sentinel (the column only), or 13 digits that
\* pass the EAN-13 checksum; a digit run that fails it is never among them.
C1_OnlyValidCodes ==
    /\ \A k \in 1..Len(texts) :
         \A c \in Range(find_eans_in_text(texts[k][1])) : IsGtin13(c)
    /\ \A k \in 1..Len(aggs) : aggs[k] = None \/ IsGtin13(aggs[k])
    /\ found = None \/ IsGtin13(found)
    /\ \A i \in 1..Len(df) : df[i] = df0[i] \/ df[i] = NOT_FOUND \/ IsGtin13(df[i])

\* lookup returns a valid code for the second row, the first row holds a
\* written valid code, and an evidence item with a digit run that fails the
\* checksum weighs more than every item the returned code is in.
C1_Witness ==
    /\ pc = "write"
    /\ idx = 2
    /\ IsGtin13(df[1])
    /\ IsGtin13(found)
    /\ \E k \in 1..Len(texts) :
         /\ texts[k][1] = Invalid13 \o <<" ", "x">>
         /\ \A j \in 1..Len(texts) :
              found \in Range(find_eans_in_text(texts[j][1])) =>
                  fgt(texts[k][2], texts[j][2])

\* What the loop skips: after str() and strip(), text whose digits are a valid
\* EAN-13, or the sentinel in any letter case.
HoldsCodeOrSentinel(cell) ==
    \/ IsGtin13(DigitsOf(strip(str(cell))))
    \/ upper(strip(str(cell))) = NOT_FOUND

C3_FailuresAbsorbed ==
    (ext.call # "none" /\ ext.failed) => (pc # "raised" /\ ext.gave = <<>>)

\* C4: the queries searched so far are the first ones of the list, in order;
\* the aggregator has run once after each finished query; a search is issued
\* only while every run so far gave None; once a run gives a code, lookup has
\* returned that code and nothing more was searched; lookup returns None only
\* after every query was searched and every run gave None.
C4_EarlyExit ==
    /\ Len(issued) <= Len(queries)
    /\ issued = SubSeq(queries, 1, Len(issued))
    /\ pc \in {"search", "snippet", "fetch", "aggregate"} =>
          /\ \A k \in 1..Len(aggs) : aggs[k] = None
          /\ Len(aggs) = qi - 1
          /\ Len(issued) = (IF pc = "search" THEN qi - 1 ELSE qi)
    /\ \A k \in 1..Len(aggs) :
          aggs[k] # None =>
              /\ pc = "write"
              /\ k = Len(aggs)
              /\ found = aggs[k]
              /\ Len(issued) = k
    /\ (pc = "write" /\ found = None) =>
          /\ Len(issued) = Len(queries)
          /\ Len(aggs) = Len(queries) + 1
          /\ \A k \in 1..Len(aggs) : aggs[k] = None

\* lookup has returned a code after its first query: the second was not searched.
C4_Witness ==
    /\ pc = "write"
    /\ found # None
    /\ Len(queries) = 2
    /\ issued = <<queries[1]>>
    /\ request_count >= 1

\* C5: the step the loop takes at a row whose target is the sentinel or a valid
\* EAN-13 calls no lookup, makes no search request, leaves the column as it is
\* and adds one to the progress counter.
C5_SkipCounts ==
    [][ ( /\ pc = "row"
          /\ idx <= max_rows
          /\ \/ strip(str(df[idx])) = NOT_FOUND
             \/ IsGtin13(strip(str(df[idx]))) )
        => ( /\ looked' = looked
             /\ request_count' = request_count
             /\ df' = df
             /\ done' = done + 1
             /\ idx' = idx + 1
             /\ pc' = "row" ) ]_vars

\* The first row held the sentinel and was skipped: counted, not looked up.
C5_Witness ==
    /\ pc = "row"
    /\ idx = 2
    /\ df0[1] = NOT_FOUND
    /\ df[1] = NOT_FOUND
    /\ done = 1
    /\ looked = {}
    /\ request_count = 0

\* C6: for 12 digits d, upc12_to_gtin13(d) is None or "0"+d, and it is "0"+d
\* exactly when is_valid_ean13("0"+d); the same holds of the digits of an input
\* that cleans to 12 digits; for every other input it is None.
C6_UpcToGtin ==
    (pc = "returned" /\ arg.fn = "upc12_to_gtin13") =>
        LET d == IF arg.x = None THEN <<>> ELSE DigitsOf(arg.x)
        IN  IF Len(d) = 12
            THEN /\ ret \in {None, <<"0">> \o d}
                 /\ (ret = <<"0">> \o d) <=> is_valid_ean13(<<"0">> \o d)
                 /\ (ret = <<"0">> \o d) <=> IsGtin13(<<"0">> \o d)
            ELSE ret = None

\* The conversion of 036000291452 gave 0036000291452.
C6_Witness ==
    /\ pc = "returned"
    /\ arg.fn = "upc12_to_gtin13"
    /\ arg.x = Upc12
    /\ ret = <<"0">> \o Upc12

\* What a matched token stands for: its 13 digits when they pass the checksum,
\* its 12 digits after a zero when those pass it, and nothing otherwise.
CodeOfToken(tok) ==
    LET d == DigitsOf(tok)
    IN  IF Len(d) = 13 /\ IsGtin13(d) THEN d
        ELSE IF Len(d) = 12 /\ IsGtin13(<<"0">> \o d) THEN <<"0">> \o d
        ELSE None

\* The first token of toks that stands for c.
FirstToken(toks, c) == CHOOSE k \in 1..Len(toks) :
    /\ CodeOfToken(toks[k]) = c
    /\ \A j \in 1..(k - 1) : CodeOfToken(toks[j]) # c

\* C9: find_eans_in_text returns the codes its matched tokens stand for (none
\* for a token of another length than 12 or 13 digits), each once, in the
\* order of their first tokens; nothing for an empty text or None.
C9_ExtractFirstOccurrence ==
    (pc = "returned" /\ arg.fn = "find_eans_in_text") =>
        LET toks == finditer(IF arg.x = None THEN <<>> ELSE arg.x, 1)
        IN  /\ Range(ret) = { CodeOfToken(toks[k]) : k \in 1..Len(toks) } \ {None}
            /\ \A i, j \in 1..Len(ret) :
                 i < j => /\ ret[i] # ret[j]
                          /\ FirstToken(toks, ret[i]) < FirstToken(toks, ret[j])
            /\ ((arg.x = None \/ arg.x = <<>>) => ret = <<>>)

\* A text with a code, a 12-digit code and the first code again gave the two
\* codes, the repeated one once and first.
C9_Witness ==
    /\ pc = "returned"
    /\ arg.fn = "find_eans_in_text"
    /\ arg.x = ValidA \o <<" ">> \o Upc12 \o <<",">> \o ValidA \o <<" ">>
    /\ ret = <<ValidA, <<"0">> \o Upc12>>

\* The codes of the evidence list tw.
CodesOf(tw) == UNION { Range(find_eans_in_text(tw[k][1])) : k \in 1..Len(tw) }

RECURSIVE TotalOf(_, _, _)
\* The total of code c accumulated over the first n items of tw, in their
\* order: for each item c is in, its weight, twice when its text has a keyword.
TotalOf(c, tw, n) ==
    IF n = 0 THEN <<0, 0>>
    ELSE IF c \in Range(find_eans_in_text(tw[n][1]))
         THEN fadd(TotalOf(c, tw, n - 1),
                   IF HasKeyword(tw[n][1]) THEN fmulint(2, tw[n][2]) ELSE tw[n][2])
         ELSE TotalOf(c, tw, n - 1)

\* The place where code c is first extracted: the item, and the place in it.
FirstItem(c, tw) == CHOOSE k \in 1..Len(tw) :
    /\ c \in Range(find_eans_in_text(tw[k][1]))
    /\ \A j \in 1..(k - 1) : c \notin Range(find_eans_in_text(tw[j][1]))

PlaceIn(c, codes) == CHOOSE j \in 1..Len(codes) : codes[j] = c

ExtractedBefore(c, d, tw) ==
    \/ FirstItem(c, tw) < FirstItem(d, tw)
    \/ /\ FirstItem(c, tw) = FirstItem(d, tw)
       /\ PlaceIn(c, find_eans_in_text(tw[FirstItem(c, tw)][1]))
            < PlaceIn(d, find_eans_in_text(tw[FirstItem(c, tw)][1]))

\* C8: choose_best_ean returns None exactly when no item yields a code;
\* otherwise a code of the greatest total, and among those the first extracted.
C8_MaxTotalFirstInserted ==
    pc = "returned" =>
        /\ (ret = None) <=> (CodesOf(texts) = {})
        /\ ret # None =>
             /\ ret \in CodesOf(texts)
             /\ \A d \in CodesOf(texts) \ {ret} :
                  \/ fgt(TotalOf(ret, texts, Len(texts)), TotalOf(d, texts, Len(texts)))
                  \/ /\ TotalOf(d, texts, Len(texts)) = TotalOf(ret, texts, Len(texts))
                     /\ ExtractedBefore(ret, d, texts)

\* Two codes have the same greatest total, and the one extracted first is returned.
C8_Witness ==
    /\ pc = "returned"
    /\ ret # None
    /\ \E d \in CodesOf(texts) \ {ret} :
         /\ TotalOf(d, texts, Len(texts)) = TotalOf(ret, texts, Len(texts))
         /\ ExtractedBefore(ret, d, texts)

\* C7: when choose_best_ean returned c for a list of positive weights, and one
\* item whose text has a keyword and yields c is added at the end, it returns c
\* for the longer list.
C7_Monotone ==
    [][ ( /\ pc = "call"
          /\ pc' = "returned"
          /\ texts # <<>>
          /\ \A k \in 1..Len(texts) : fgt(texts[k][2], <<0, 0>>)
          /\ ret # None
          /\ ret = choose_best_ean(SubSeq(texts, 1, Len(texts) - 1))
          /\ HasKeyword(texts[Len(texts)][1])
          /\ ret \in Range(find_eans_in_text(texts[Len(texts)][1])) )
        => ret' = ret ]_vars

\* q is p with nothing or more at its end.
IsPrefix(p, q) == Len(p) <= Len(q) /\ SubSeq(q, 1, Len(p)) = p

\* C10: lookup starts with no evidence; the step at result r adds its snippet
\* with weight 1.0 + (max_urls - r) * 0.1 at the end of the list, the fetch of
\* its page adds the page text with that weight plus 0.5 when the text is not
\* empty and nothing otherwise; no other step of lookup changes the list.
C10_EvidenceGrows ==
    [][ /\ (pc = "row" /\ pc' = "search") => texts' = <<>>
        /\ pc \in {"search", "snippet", "fetch", "aggregate", "final"} =>
             IsPrefix(texts, texts')
        /\ pc \in {"search", "aggregate", "final"} => texts' = texts
        /\ pc = "snippet" =>
             texts' = Append(texts, <<items[rank + 1].snippet,
                                      fadd(F(10), fmulint(max_urls - rank, F(1)))>>)
        /\ pc = "fetch" =>
             texts' = (IF ext'.gave # <<>>
                       THEN Append(texts, <<ext'.gave,
                                            fadd(fadd(F(10), fmulint(max_urls - rank, F(1))),
                                                 F(5))>>)
                       ELSE texts) ]_vars

\* The aggregator runs after the second query of the second lookup of a run,
\* over evidence of both queries, with a page of the second result among it.
C10_Witness ==
    /\ pc = "aggregate"
    /\ idx = 2
    /\ qi = 2
    /\ Len(texts) >= 4
    /\ texts[1][2] = F(15)
    /\ \E k \in 1..Len(texts) : texts[k][2] = fadd(fadd(F(10), fmulint(4, F(1))), F(5))

====
